---- MODULE Spec2Model ----
(***************************************************************************)
(* A model of scripts/sync-xcode-files.py: the tool that scans a source    *)
(* tree for .swift files, finds those the Xcode manifest (project.pbxproj) *)
(* does not reference, and edits the manifest text to add them.            *)
(*                                                                         *)
(* The manifest text is modelled by what the script's regular expressions  *)
(* and marker searches can see in it:                                      *)
(*   sync       the text contains PBXFileSystemSynchronizedRootGroup       *)
(*   frMarker   the text contains "/* Begin PBXFileReference section */"   *)
(*   bfMarker   the text contains "/* Begin PBXBuildFile section */"       *)
(*   grpMarker  the text contains "/* Begin PBXGroup section */"           *)
(*   srcPhase   the text contains a "/* Sources */ = {isa =                *)
(*              PBXSourcesBuildPhase; ... files = (...)" block             *)
(*   mainGroup  the id after "mainGroup = " (NoId when the text has none)  *)
(*   fileRefs   the PBXFileReference entries, in text order                *)
(*   buildFiles the PBXBuildFile entries, in text order                    *)
(*   sources    the ids in the first Sources build phase's files list      *)
(*   groups     the PBXGroup entries, in text order; name = "" is a group  *)
(*              entry without a /* name */ comment, path = "" one without  *)
(*              a path attribute                                           *)
(* File and directory names are ordinary names (no "*", ")" or ";").       *)
(***************************************************************************)
EXTENDS Integers, Sequences, FiniteSets, TLC

\* ------------------------------------------------------------------ bounds

\* The largest number of .swift files in the source tree.
MaxFiles == 2

\* The longest argument vector of the runs of Spec.
MaxArgs == 1

\* ------------------------------------------------------------- identifiers

\* The absent id: Python's None where the code holds an id or None.
NoId == 0

\* Ids the generator returns start here; the ids of a manifest's own entries
\* lie below.  uuid4 draws 96 random bits, so the generator is modelled as
\* never repeating an id and never hitting one the document holds.
UuidBase == 100

\* The k-th id (k = 0, 1, ...) of the generator whose random stream is `seed`.
generate_uuid(seed, k) == UuidBase + 2 * k + seed

\* ------------------------------------------------- the manifest document

\* get_files_in_project: the names of the PBXFileReference entries whose name
\* ends in .swift.
SwiftNames == {"Foo.swift", "Bar.swift"}

\* f.endswith('.swift'), for the file names of the trees modelled.
EndsWithSwift(f) == f \in SwiftNames

get_files_in_project(content) ==
    {content.fileRefs[i].name : i \in DOMAIN content.fileRefs} \cap SwiftNames

\* parse_groups: id -> [name, path, children] for every PBXGroup entry; a
\* group without a path attribute gets its name as path.
parse_groups(content) ==
    LET ids == {content.groups[i].id : i \in DOMAIN content.groups}
    IN  [g \in ids |->
            LET i == CHOOSE j \in DOMAIN content.groups :
                         /\ content.groups[j].id = g
                         /\ \A k \in DOMAIN content.groups :
                                content.groups[k].id = g => k <= j
                e == content.groups[i]
            IN  [name     |-> e.name,
                 path     |-> IF e.path = "" THEN e.name ELSE e.path,
                 children |-> e.children]]

\* The loop of ensure_group_path and find_group_by_path over a group's
\* children: the first child that is a group whose path is `part`.
RECURSIVE FindChild(_, _, _, _)
FindChild(groups, children, part, i) ==
    IF i > Len(children) THEN NoId
    ELSE IF children[i] \in DOMAIN groups /\ groups[children[i]].path = part
         THEN children[i]
         ELSE FindChild(groups, children, part, i + 1)

\* find_group_by_path: walk path_parts down from the main group.
RECURSIVE WalkPath(_, _, _, _)
WalkPath(groups, current, path_parts, i) ==
    IF i > Len(path_parts) THEN current
    ELSE LET found == IF current \in DOMAIN groups
                      THEN FindChild(groups, groups[current].children,
                                     path_parts[i], 1)
                      ELSE NoId
         IN  IF found = NoId THEN NoId
             ELSE WalkPath(groups, found, path_parts, i + 1)

find_group_by_path(content, groups, path_parts) ==
    IF path_parts = << >> THEN NoId
    ELSE IF content.mainGroup = NoId THEN NoId
    ELSE WalkPath(groups, content.mainGroup, path_parts, 1)

\* add_child_to_group with the replacer dropping the children it matched.
add_child_to_group_DropsChildren(content, group_id, child_id) ==
    LET hits == {i \in DOMAIN content.groups :
                    /\ content.groups[i].id = group_id
                    /\ content.groups[i].name # ""}
    IN  IF hits = {} THEN content
        ELSE LET i == CHOOSE j \in hits : \A k \in hits : j <= k
             IN  [content EXCEPT !.groups[i].children = <<child_id>>]

\* add_child_to_group: the substitution matches the first group entry
\* "<group_id> /* name */ = { isa = PBXGroup; children = (" and puts the new
\* child right after the opening parenthesis; an entry without the name
\* comment does not match and the text stays as it was.
add_child_to_group(content, group_id, child_id) ==
    LET hits == {i \in DOMAIN content.groups :
                    /\ content.groups[i].id = group_id
                    /\ content.groups[i].name # ""}
    IN  IF hits = {} THEN content
        ELSE LET i == CHOOSE j \in hits : \A k \in hits : j <= k
             IN  [content EXCEPT !.groups[i].children = <<child_id>> \o @]

\* create_group: the entry goes right after the PBXGroup section marker (when
\* the text has one), and the id into the parent's children.
create_group(content, parent_group_id, group_name, new_group_id) ==
    LET group_entry == [id |-> new_group_id, name |-> group_name,
                        path |-> group_name, children |-> << >>]
        inserted == IF content.grpMarker
                    THEN [content EXCEPT !.groups = <<group_entry>> \o @]
                    ELSE content
    IN  add_child_to_group(inserted, parent_group_id, new_group_id)

\* ensure_group_path: [raised, content, leaf, k]; k counts the ids drawn so
\* far.  The groups are parsed again for every path part.
RECURSIVE EnsureLoop(_, _, _, _, _, _)
EnsureLoop(content, current, path_parts, i, seed, k) ==
    IF i > Len(path_parts)
    THEN [raised |-> FALSE, content |-> content, leaf |-> current, k |-> k]
    ELSE LET groups   == parse_groups(content)
             found_id == IF current \in DOMAIN groups
                         THEN FindChild(groups, groups[current].children,
                                        path_parts[i], 1)
                         ELSE NoId
         IN  IF found_id # NoId
             THEN EnsureLoop(content, found_id, path_parts, i + 1, seed, k)
             ELSE LET new_id == generate_uuid(seed, k)
                  IN  EnsureLoop(create_group(content, current, path_parts[i],
                                              new_id),
                                 new_id, path_parts, i + 1, seed, k + 1)

ensure_group_path(content, path_parts, seed, k) ==
    IF content.mainGroup = NoId
    THEN [raised |-> TRUE, content |-> content, leaf |-> NoId, k |-> k]
    ELSE EnsureLoop(content, content.mainGroup, path_parts, 1, seed, k)

\* find_source_group: the first child of the main group that is a group
\* named group_name.
RECURSIVE FindNamed(_, _, _, _)
FindNamed(groups, children, group_name, i) ==
    IF i > Len(children) THEN NoId
    ELSE IF children[i] \in DOMAIN groups
            /\ groups[children[i]].name = group_name
         THEN children[i]
         ELSE FindNamed(groups, children, group_name, i + 1)

find_source_group(content, groups, group_name) ==
    IF content.mainGroup = NoId THEN NoId
    ELSE IF content.mainGroup \notin DOMAIN groups THEN NoId
    ELSE FindNamed(groups, groups[content.mainGroup].children, group_name, 1)

\* A path is the sequence of its parts, relative to the source directory.
Filename(filepath) == filepath[Len(filepath)]
DirParts(filepath) == SubSeq(filepath, 1, Len(filepath) - 1)

\* add_file_to_project: [raised, content, k, leaf], leaf being its local
\* parent_group_id.  source_group is the project's configured source group
\* name ("" for None).
add_file_to_project(content, filepath, source_group, seed, k) ==
    LET filename      == Filename(filepath)
        path_parts    == DirParts(filepath)
        file_ref_id   == generate_uuid(seed, k)
        build_file_id == generate_uuid(seed, k + 1)
        \* 1. the parent group
        ens == IF path_parts # << >>
               THEN ensure_group_path(content, path_parts, seed, k + 2)
               ELSE [raised |-> FALSE, content |-> content, k |-> k + 2,
                     leaf |-> IF source_group # ""
                              THEN find_source_group(content,
                                       parse_groups(content), source_group)
                              ELSE content.mainGroup]
        c1 == ens.content
        \* 2. the PBXFileReference entry
        c2 == IF c1.frMarker
              THEN [c1 EXCEPT !.fileRefs =
                       <<[id |-> file_ref_id, name |-> filename]>> \o @]
              ELSE c1
        \* 3. the parent group's children
        c3 == IF ens.leaf # NoId
              THEN add_child_to_group(c2, ens.leaf, file_ref_id)
              ELSE c2
        \* 4. the PBXBuildFile entry
        c4 == IF c3.bfMarker
              THEN [c3 EXCEPT !.buildFiles =
                       <<[id |-> build_file_id, fileRef |-> file_ref_id]>> \o @]
              ELSE c3
        \* 5. the Sources build phase
        c5 == IF c4.srcPhase
              THEN [c4 EXCEPT !.sources = <<build_file_id>> \o @]
              ELSE c4
    IN  IF ens.raised
        THEN [raised |-> TRUE, content |-> content, k |-> ens.k,
              leaf |-> NoId]
        ELSE [raised |-> FALSE, content |-> c5, k |-> ens.k,
              leaf |-> ens.leaf]

\* ------------------------------------------------------ the command line

\* PROJECTS: the project names, and each project's source_group ("" for None).
PROJECTS == {"macos", "ios", "live", "engine"}

SourceGroupOf(project_name) ==
    IF project_name = "engine" THEN "TalkieEngine" ELSE ""

\* skip_dirs of a project.
SkipDirsOf(project_name) ==
    {"build", ".build", "DerivedData", "Packages", ".swiftpm", "xcshareddata"}
        \cup (IF project_name = "engine" THEN {"Views"} ELSE {})

\* The words a command line is made of here: the three mode flags, --only,
\* a project name, and a glob (which, given as a positional word, is an
\* unknown project name).
Flags == {"--check", "--dry-run", "--diff", "--only"}
Words == Flags \cup {"engine", "Data/*"}

\* a.startswith('-')
StartsWithDash(a) == a \in Flags

Range(s) == {s[i] : i \in DOMAIN s}

\* argv.index('--only'), counted from 1; 0 when --only is not given.
IndexOfOnly(argv) ==
    IF "--only" \notin Range(argv) THEN 0
    ELSE CHOOSE i \in DOMAIN argv :
             argv[i] = "--only" /\ \A j \in 1..(i - 1) : argv[j] # "--only"

\* The --only value ("" when there is none): the word after the first --only.
OnlyPattern(argv) ==
    LET idx == IndexOfOnly(argv)
    IN  IF idx # 0 /\ idx < Len(argv) THEN argv[idx + 1] ELSE ""

\* argv with --only and its value taken out, when it has a value.
WithoutOnly(argv) ==
    LET idx == IndexOfOnly(argv)
    IN  IF idx # 0 /\ idx < Len(argv)
        THEN SubSeq(argv, 1, idx - 1) \o SubSeq(argv, idx + 2, Len(argv))
        ELSE argv

\* The project name: the first positional word, macos by default.
ProjectName(argv) ==
    LET args == SelectSeq(WithoutOnly(argv), LAMBDA a : ~StartsWithDash(a))
    IN  IF args # << >> THEN args[1] ELSE "macos"

\* fnmatch.fnmatch(rel_path, pattern): "*" matches any run of characters, "/"
\* included, so "Data/*" matches the paths under Data; a pattern without a
\* wildcard matches the path spelled exactly so, which no .swift file is.
Fnmatch(filepath, pattern) ==
    IF pattern = "Data/*" THEN Len(filepath) >= 2 /\ filepath[1] = "Data"
    ELSE FALSE

\* --------------------------------------------------------------- the scan

\* The order of the names under Python's string comparison.
NameOrder ==
    <<".build", "Bar.swift", "Data", "Foo.swift", "Models", "Notes.md",
      "Talkie.xcodeproj", "Views">>
NameRank(n) == CHOOSE i \in DOMAIN NameOrder : NameOrder[i] = n

\* Path.__lt__: the parts compared as lists.
RECURSIVE PathLess(_, _, _)
PathLess(a, b, i) ==
    IF i > Len(a) THEN i <= Len(b)
    ELSE IF i > Len(b) THEN FALSE
    ELSE IF a[i] = b[i] THEN PathLess(a, b, i + 1)
    ELSE NameRank(a[i]) < NameRank(b[i])

\* The paths of S in ascending order.
RECURSIVE Sorted(_)
Sorted(S) ==
    IF S = {} THEN << >>
    ELSE LET m == CHOOSE x \in S : \A y \in S \ {x} : PathLess(x, y, 1)
         IN  <<m>> \o Sorted(S \ {m})

\* d.endswith('.xcodeproj'), for the directory names of the trees modelled.
EndsWithXcodeproj(d) == d = "Talkie.xcodeproj"

\* The orders a set can be listed in.
Orders(S) ==
    {w \in [1..Cardinality(S) -> S] : \A x \in S : \E i \in DOMAIN w : w[i] = x}

\* os_walk with no directory pruned.
os_walk_NothingPruned(exists, files, skip_dirs) ==
    Orders({f \in (IF exists THEN files ELSE {}) : EndsWithSwift(Filename(f))})

\* os.walk(source_dir) as find_swift_files uses it: the lists swift_files can
\* be when the loop ends.  The skipped directories are pruned and the .swift
\* files collected, in the order the file system lists them, which is any
\* order; a source directory that does not exist is walked as an empty one
\* (os.walk swallows the error of the listing).
os_walk(exists, files, skip_dirs) ==
    Orders({f \in (IF exists THEN files ELSE {}) :
               /\ EndsWithSwift(Filename(f))
               /\ \A i \in 1..(Len(f) - 1) :
                      f[i] \notin skip_dirs /\ ~EndsWithXcodeproj(f[i])})

\* find_swift_files returning the list as the walk left it.
SortedList_Unsorted(swift_files) == swift_files

\* sorted(swift_files)
SortedList(swift_files) == Sorted(Range(swift_files))

\* find_swift_files: the lists it can return.
find_swift_files(exists, files, skip_dirs) ==
    {SortedList(swift_files) : swift_files \in os_walk(exists, files, skip_dirs)}

\* Missing with a file taken for present only when the manifest has its
\* relative path as a name.
Missing_ByRelativePath(all_swift_files, existing_files, only_pattern) ==
    SelectSeq(all_swift_files,
              LAMBDA f : /\ ~(Len(f) = 1 /\ Filename(f) \in existing_files)
                         /\ (only_pattern # "" => Fnmatch(f, only_pattern)))

\* Missing without the --only filter.
Missing_IgnoresOnly(all_swift_files, existing_files, only_pattern) ==
    SelectSeq(all_swift_files, LAMBDA f : Filename(f) \notin existing_files)

\* The missing list of main: the scanned files whose name is not among
\* existing_files and that match --only, in scan order.
Missing(all_swift_files, existing_files, only_pattern) ==
    SelectSeq(all_swift_files,
              LAMBDA f : /\ Filename(f) \notin existing_files
                         /\ (only_pattern # "" => Fnmatch(f, only_pattern)))

\* ------------------------------------------------------------- the state

VARIABLES
    run,    \* process -> the locals of its run of main
    disk,   \* project -> [manifest, backup]: the two files' contents, and
            \* source_dir: the project's source directory exists
    tree,   \* project -> the files under its source directory
    log     \* the writes to the disk so far, oldest first

vars == <<run, disk, tree, log>>

\* A document with nothing in it: the text "".
EmptyDoc ==
    [sync |-> FALSE, frMarker |-> FALSE, bfMarker |-> FALSE,
     grpMarker |-> FALSE, srcPhase |-> FALSE, mainGroup |-> NoId,
     fileRefs |-> << >>, buildFiles |-> << >>, sources |-> << >>,
     groups |-> << >>]

\* A file's content: absent (no such file), full (the text doc), empty
\* (created or truncated, nothing written), partial (a proper prefix of doc).
Absent       == [kind |-> "absent"]
Full(doc)    == [kind |-> "full", doc |-> doc]
Truncated    == [kind |-> "empty"]
Partial(doc) == [kind |-> "partial", doc |-> doc]

\* The text a read of a full or empty file returns.
TextOf(file) == IF file.kind = "full" THEN file.doc ELSE EmptyDoc

\* ExitStatus with --check reporting missing files by a non-zero status.
ExitStatus_CheckFails(outcome) ==
    IF outcome \in {"synced_by_xcode", "in_sync", "diff", "dry_run", "written"}
    THEN 0 ELSE 1

\* How main ends, by outcome: return (status 0), or sys.exit(1) or an
\* exception nobody catches (status 1).
ExitStatus(outcome) ==
    IF outcome \in {"synced_by_xcode", "in_sync", "checked", "diff",
                    "dry_run", "written"}
    THEN 0 ELSE 1

\* The locals of a run about to start.
FreshRun(argv, seed, k, round) ==
    [argv |-> argv, seed |-> seed, k |-> k, round |-> round,
     pc |-> "start", outcome |-> "",
     check_only |-> FALSE, dry_run |-> FALSE, show_diff |-> FALSE,
     only_pattern |-> "", project_name |-> "",
     original_content |-> EmptyDoc, content |-> EmptyDoc,
     all_swift_files |-> << >>, missing |-> << >>, i |-> 0,
     path_parts |-> << >>, parent_group_id |-> NoId,
     file_ref_id |-> NoId, build_file_id |-> NoId]

Exit(r, outcome) == [r EXCEPT !.pc = "exited", !.outcome = outcome]

\* -------------------------------------------------------- the steps of main

\* main, lines 334-352: the flags, --only and the project name.
ParseArgs(p) ==
    /\ run[p].pc = "start"
    /\ LET argv == run[p].argv
       IN  run' = [run EXCEPT ![p] =
                     [run[p] EXCEPT
                         !.pc = "config",
                         !.check_only = "--check" \in Range(argv),
                         !.dry_run = "--dry-run" \in Range(argv),
                         !.show_diff = "--diff" \in Range(argv),
                         !.only_pattern = OnlyPattern(argv),
                         !.project_name = ProjectName(argv)]]
    /\ UNCHANGED <<disk, tree, log>>

\* main, lines 354-366: an unknown project or a manifest that does not exist
\* ends the run with status 1.
CheckConfig(p) ==
    /\ run[p].pc = "config"
    /\ run' = [run EXCEPT ![p] =
                 IF run[p].project_name \notin PROJECTS
                 THEN Exit(run[p], "unknown_project")
                 ELSE IF disk[run[p].project_name].manifest.kind = "absent"
                 THEN Exit(run[p], "no_manifest")
                 ELSE [run[p] EXCEPT !.pc = "read"]]
    /\ UNCHANGED <<disk, tree, log>>

\* main, lines 368-369: read the manifest.  (A file left partly written is
\* not read in this model.)
ReadManifest(p) ==
    /\ run[p].pc = "read"
    /\ disk[run[p].project_name].manifest.kind \in {"full", "empty"}
    /\ run' = [run EXCEPT ![p] =
                 [run[p] EXCEPT
                     !.pc = "sync",
                     !.original_content =
                         TextOf(disk[run[p].project_name].manifest)]]
    /\ UNCHANGED <<disk, tree, log>>

\* SyncCheck without the test for the marker.
SyncCheck_Ignored(p) ==
    /\ run[p].pc = "sync"
    /\ run' = [run EXCEPT ![p].pc = "scan"]
    /\ UNCHANGED <<disk, tree, log>>

\* main, lines 371-377: a manifest Xcode keeps in sync itself is left alone.
SyncCheck(p) ==
    /\ run[p].pc = "sync"
    /\ run' = [run EXCEPT ![p] =
                 IF run[p].original_content.sync
                 THEN Exit(run[p], "synced_by_xcode")
                 ELSE [run[p] EXCEPT !.pc = "scan"]]
    /\ UNCHANGED <<disk, tree, log>>

\* Scan without the return on an empty missing list outside --check: the run
\* goes on to its report, backup and write.
Scan_NoEarlyReturn(p) ==
    /\ run[p].pc = "scan"
    /\ LET r == run[p]
           existing_files == get_files_in_project(r.original_content)
       IN  \E all_swift_files \in
                  find_swift_files(disk[r.project_name].source_dir,
                                   tree[r.project_name],
                                   SkipDirsOf(r.project_name)) :
               LET missing == Missing(all_swift_files, existing_files,
                                      r.only_pattern)
                   r1 == [r EXCEPT !.content = r.original_content,
                                   !.all_swift_files = all_swift_files,
                                   !.missing = missing]
               IN  run' = [run EXCEPT ![p] =
                             IF r.check_only
                             THEN Exit(r1, IF missing = << >> THEN "in_sync"
                                           ELSE "checked")
                             ELSE IF missing = << >>
                             THEN [r1 EXCEPT !.pc = "mode"]
                             ELSE [r1 EXCEPT !.pc = "add", !.i = 1]]
    /\ UNCHANGED <<disk, tree, log>>

\* main, lines 382-410: the scan, the missing list, and the two returns that
\* follow it (nothing missing; --check).
Scan(p) ==
    /\ run[p].pc = "scan"
    /\ LET r == run[p]
           existing_files == get_files_in_project(r.original_content)
       IN  \E all_swift_files \in
                  find_swift_files(disk[r.project_name].source_dir,
                                   tree[r.project_name],
                                   SkipDirsOf(r.project_name)) :
               LET missing == Missing(all_swift_files, existing_files,
                                      r.only_pattern)
                   r1 == [r EXCEPT !.content = r.original_content,
                                   !.all_swift_files = all_swift_files,
                                   !.missing = missing]
               IN  run' = [run EXCEPT ![p] =
                             IF missing = << >> THEN Exit(r1, "in_sync")
                             ELSE IF r.check_only THEN Exit(r1, "checked")
                             ELSE [r1 EXCEPT !.pc = "add", !.i = 1]]
    /\ UNCHANGED <<disk, tree, log>>

\* AddFile handing every call the manifest as read, not the document the
\* call before returned.
AddFile_FromOriginal(p) ==
    /\ run[p].pc = "add"
    /\ LET r == run[p]
           filepath == r.missing[r.i]
           res == add_file_to_project(r.original_content, filepath,
                                      SourceGroupOf(r.project_name),
                                      r.seed, r.k)
       IN  run' = [run EXCEPT ![p] =
                     IF res.raised
                     THEN Exit([r EXCEPT !.k = res.k], "raised")
                     ELSE [r EXCEPT !.content = res.content,
                                    !.k = res.k,
                                    !.i = r.i + 1,
                                    !.path_parts = DirParts(filepath),
                                    !.parent_group_id = res.leaf,
                                    !.file_ref_id =
                                        generate_uuid(r.seed, r.k),
                                    !.build_file_id =
                                        generate_uuid(r.seed, r.k + 1),
                                    !.pc = IF r.i = Len(r.missing)
                                           THEN "mode" ELSE "add"]]
    /\ UNCHANGED <<disk, tree, log>>

\* main, lines 413-414: one turn of the loop over missing.  A ValueError of
\* ensure_group_path ends the run.
AddFile(p) ==
    /\ run[p].pc = "add"
    /\ LET r == run[p]
           filepath == r.missing[r.i]
           res == add_file_to_project(r.content, filepath,
                                      SourceGroupOf(r.project_name),
                                      r.seed, r.k)
       IN  run' = [run EXCEPT ![p] =
                     IF res.raised
                     THEN Exit([r EXCEPT !.k = res.k], "raised")
                     ELSE [r EXCEPT !.content = res.content,
                                    !.k = res.k,
                                    !.i = r.i + 1,
                                    !.path_parts = DirParts(filepath),
                                    !.parent_group_id = res.leaf,
                                    !.file_ref_id =
                                        generate_uuid(r.seed, r.k),
                                    !.build_file_id =
                                        generate_uuid(r.seed, r.k + 1),
                                    !.pc = IF r.i = Len(r.missing)
                                           THEN "mode" ELSE "add"]]
    /\ UNCHANGED <<disk, tree, log>>

\* main, lines 413-414, as a whole: the document after the first n files of
\* missing have been added, each call of add_file_to_project getting the
\* document and the generator as the call before left them.
RECURSIVE AddMissing(_, _, _, _, _, _)
AddMissing(content, missing, n, source_group, seed, k) ==
    IF n = 0 THEN [raised |-> FALSE, content |-> content, k |-> k]
    ELSE LET before == AddMissing(content, missing, n - 1, source_group,
                                  seed, k)
             res == add_file_to_project(before.content, missing[n],
                                        source_group, seed, before.k)
         IN  IF before.raised THEN before
             ELSE [raised |-> res.raised,
                   content |-> IF res.raised THEN before.content
                               ELSE res.content,
                   k |-> res.k]

\* ModeReport without the return of --dry-run.
ModeReport_DryRunWrites(p) ==
    /\ run[p].pc = "mode"
    /\ run' = [run EXCEPT ![p] =
                 IF run[p].show_diff THEN Exit(run[p], "diff")
                 ELSE [run[p] EXCEPT !.pc = "backup"]]
    /\ UNCHANGED <<disk, tree, log>>

\* main, lines 416-434: --diff and --dry-run return here.
ModeReport(p) ==
    /\ run[p].pc = "mode"
    /\ run' = [run EXCEPT ![p] =
                 IF run[p].show_diff THEN Exit(run[p], "diff")
                 ELSE IF run[p].dry_run THEN Exit(run[p], "dry_run")
                 ELSE [run[p] EXCEPT !.pc = "backup"]]
    /\ UNCHANGED <<disk, tree, log>>

\* A write to the disk, as the log keeps it.
Event(p, op) == [p |-> p, project |-> run[p].project_name, op |-> op]

\* BackupOk saving the edited document instead of the file.
BackupOk_CopiesNew(p) ==
    /\ run[p].pc = "backup"
    /\ disk' = [disk EXCEPT ![run[p].project_name].backup =
                                Full(run[p].content)]
    /\ log' = Append(log, Event(p, "backup"))
    /\ run' = [run EXCEPT ![p].pc = "open"]
    /\ UNCHANGED tree

\* BackupOk with one backup path for all the projects (that of macos).
BackupOk_SharedPath(p) ==
    /\ run[p].pc = "backup"
    /\ LET q == run[p].project_name
       IN  disk' = [disk EXCEPT !["macos"].backup = disk[q].manifest]
    /\ log' = Append(log, Event(p, "backup"))
    /\ run' = [run EXCEPT ![p].pc = "open"]
    /\ UNCHANGED tree

\* main, line 438, shutil.copy succeeding: the backup file gets what the
\* manifest file holds now.
BackupOk(p) ==
    /\ run[p].pc = "backup"
    /\ LET q == run[p].project_name
       IN  disk' = [disk EXCEPT ![q].backup = disk[q].manifest]
    /\ log' = Append(log, Event(p, "backup"))
    /\ run' = [run EXCEPT ![p].pc = "open"]
    /\ UNCHANGED tree

\* BackupFail with the exception swallowed: the run goes on to the write.
BackupFail_Swallowed(p) ==
    /\ run[p].pc = "backup"
    /\ LET q == run[p].project_name
       IN  \E left \in {disk[q].backup, Truncated,
                        Partial(TextOf(disk[q].manifest))} :
               /\ disk' = [disk EXCEPT ![q].backup = left]
               /\ log' = IF left = disk[q].backup THEN log
                         ELSE Append(log, Event(p, "backup_failed"))
    /\ run' = [run EXCEPT ![p].pc = "open"]
    /\ UNCHANGED tree

\* main, line 438, shutil.copy raising: before it created the backup file
\* (which then stays as it was), or after, with nothing or part of the
\* manifest copied.  The exception ends the run.
BackupFail(p) ==
    /\ run[p].pc = "backup"
    /\ LET q == run[p].project_name
       IN  \E left \in {disk[q].backup, Truncated,
                        Partial(TextOf(disk[q].manifest))} :
               /\ disk' = [disk EXCEPT ![q].backup = left]
               /\ log' = IF left = disk[q].backup THEN log
                         ELSE Append(log, Event(p, "backup_failed"))
    /\ run' = [run EXCEPT ![p] = Exit(run[p], "backup_failed")]
    /\ UNCHANGED tree

\* main, line 440, open(pbxproj, 'w') succeeding: the manifest file is
\* truncated.
OpenManifest(p) ==
    /\ run[p].pc = "open"
    /\ disk' = [disk EXCEPT ![run[p].project_name].manifest = Truncated]
    /\ log' = Append(log, Event(p, "open_w"))
    /\ run' = [run EXCEPT ![p].pc = "write"]
    /\ UNCHANGED tree

\* main, line 440, open raising: the manifest file is not touched.
OpenFail(p) ==
    /\ run[p].pc = "open"
    /\ run' = [run EXCEPT ![p] = Exit(run[p], "open_failed")]
    /\ UNCHANGED <<disk, tree, log>>

\* main, lines 441-444, the write succeeding: the file holds content.
WriteOk(p) ==
    /\ run[p].pc = "write"
    /\ disk' = [disk EXCEPT ![run[p].project_name].manifest =
                                Full(run[p].content)]
    /\ log' = Append(log, Event(p, "write"))
    /\ run' = [run EXCEPT ![p] = Exit(run[p], "written")]
    /\ UNCHANGED tree

\* main, line 441, the write raising: the file holds nothing or a part of
\* content.
WriteFail(p) ==
    /\ run[p].pc = "write"
    /\ \E left \in {Truncated, Partial(run[p].content)} :
           disk' = [disk EXCEPT ![run[p].project_name].manifest = left]
    /\ log' = Append(log, Event(p, "write_failed"))
    /\ run' = [run EXCEPT ![p] = Exit(run[p], "write_failed")]
    /\ UNCHANGED tree

\* The tool is run again, with the same command line, after a run that ended
\* with status 0.  The generator goes on drawing new ids.
MaxRuns == 2

Rerun(p) ==
    /\ run[p].pc = "exited"
    /\ ExitStatus(run[p].outcome) = 0
    /\ run[p].round < MaxRuns
    /\ run' = [run EXCEPT ![p] =
                 FreshRun(run[p].argv, run[p].seed, run[p].k, run[p].round + 1)]
    /\ UNCHANGED <<disk, tree, log>>

\* ------------------------------------------------------ the initial states

\* The manifests a run starts from.
GroupEntry(id, name, children) ==
    [id |-> id, name |-> name, path |-> name, children |-> children]

\* The main group (id 1; Xcode writes it without a name comment and without
\* a path) and the groups under it, in four layouts.
MainEntry(main_name, children) ==
    [id |-> 1, name |-> main_name, path |-> "", children |-> children]

GroupLayout(n, main_name, more) ==
    CASE n = 0 -> <<MainEntry(main_name, more)>>
      [] n = 1 -> <<MainEntry(main_name, <<2>> \o more),
                    GroupEntry(2, "Data", << >>)>>
      [] n = 2 -> <<MainEntry(main_name, <<2>> \o more),
                    GroupEntry(2, "Data", <<3>>),
                    GroupEntry(3, "Models", << >>)>>
      [] n = 3 -> <<MainEntry(main_name, <<4>> \o more),
                    GroupEntry(4, "TalkieEngine", << >>)>>

\* A manifest: its markers, its mainGroup reference, its groups and, with
\* has_foo, Foo.swift already in it (file reference 5, build file 6).
Manifest(fr, bf, grp, src, main_ref, layout, main_name, has_foo) ==
    [sync |-> FALSE, frMarker |-> fr, bfMarker |-> bf, grpMarker |-> grp,
     srcPhase |-> src, mainGroup |-> main_ref,
     fileRefs |-> IF has_foo THEN <<[id |-> 5, name |-> "Foo.swift"]>>
                  ELSE << >>,
     buildFiles |-> IF has_foo THEN <<[id |-> 6, fileRef |-> 5]>> ELSE << >>,
     sources |-> IF has_foo /\ src THEN <<6>> ELSE << >>,
     groups |-> GroupLayout(layout, main_name,
                            IF has_foo THEN <<5>> ELSE << >>)]

MainNames == {"", "Talkie"}

\* Well-formed manifests of every layout, with and without Foo.swift.
StructureFamily ==
    {Manifest(TRUE, TRUE, TRUE, TRUE, 1, layout, main_name, has_foo) :
        layout \in 0..3, main_name \in MainNames, has_foo \in BOOLEAN}

\* Manifests without a mainGroup reference.
NoMainFamily ==
    {Manifest(TRUE, TRUE, TRUE, TRUE, NoId, layout, "Talkie", FALSE) :
        layout \in 0..1}

\* Manifests lacking any of the markers.
MarkerFamily ==
    {Manifest(fr, bf, grp, src, 1, 0, main_name, FALSE) :
        fr \in BOOLEAN, bf \in BOOLEAN, grp \in BOOLEAN, src \in BOOLEAN,
        main_name \in MainNames}

\* A manifest Xcode keeps in sync itself.
SyncFamily ==
    {[Manifest(TRUE, TRUE, TRUE, TRUE, 1, 0, "", FALSE) EXCEPT !.sync = TRUE]}

Manifests == StructureFamily \cup NoMainFamily \cup MarkerFamily \cup SyncFamily

ManifestFiles == {Full(m) : m \in Manifests} \cup {Absent}

\* The source trees: up to MaxFiles of these files.
PathUniverse ==
    {<<"Foo.swift">>, <<"Data", "Bar.swift">>,
     <<"Data", "Models", "Foo.swift">>, <<"Data", "Models", "Bar.swift">>}

Trees == {t \in SUBSET PathUniverse : Cardinality(t) <= MaxFiles}

\* The command lines of up to n words.
Argvs(n) == UNION {[1..m -> Words] : m \in 0..n}

\* The manifest of macos lies under its source directory; those of the
\* other projects lie beside theirs.
ManifestInSourceDir(project_name) == project_name = "macos"

\* The state a run of command line argv starts in: one process; the disk
\* holds the manifest and the source tree of the project the command line
\* names (nothing, when it names none of PROJECTS), and no backup yet.
StartIn(argv, file, exists, t, seed) ==
    /\ run = [p \in {1} |-> FreshRun(argv, seed, 0, 1)]
    /\ disk = [q \in {ProjectName(argv)} \cap PROJECTS |->
                  [manifest |-> file, backup |-> Absent,
                   source_dir |-> exists]]
    /\ tree = [q \in {ProjectName(argv)} \cap PROJECTS |-> t]
    /\ log = << >>

Start(argv, file, t, seed) == StartIn(argv, file, TRUE, t, seed)

\* The same without the source directory: then macos has no manifest.
StartWithoutSourceDir(argv, file, seed) ==
    /\ ManifestInSourceDir(ProjectName(argv)) => file = Absent
    /\ StartIn(argv, file, FALSE, {}, seed)

MainArgvs == Argvs(MaxArgs)

Init ==
    \E argv \in MainArgvs, file \in ManifestFiles :
        \/ \E t \in Trees : Start(argv, file, t, 0)
        \/ StartWithoutSourceDir(argv, file, 0)

Next ==
    \/ \E p \in DOMAIN run : ParseArgs(p)
    \/ \E p \in DOMAIN run : CheckConfig(p)
    \/ \E p \in DOMAIN run : ReadManifest(p)
    \/ \E p \in DOMAIN run : SyncCheck(p)
    \/ \E p \in DOMAIN run : Scan(p)
    \/ \E p \in DOMAIN run : AddFile(p)
    \/ \E p \in DOMAIN run : ModeReport(p)
    \/ \E p \in DOMAIN run : BackupOk(p)
    \/ \E p \in DOMAIN run : BackupFail(p)
    \/ \E p \in DOMAIN run : OpenManifest(p)
    \/ \E p \in DOMAIN run : OpenFail(p)
    \/ \E p \in DOMAIN run : WriteOk(p)
    \/ \E p \in DOMAIN run : WriteFail(p)

Spec == Init /\ [][Next]_vars

\* Runs of every command line of up to MaxArgsWide words, over a few
\* manifests and trees.
MaxArgsWide == 3

WideArgvs == Argvs(MaxArgsWide)

WideManifestFiles ==
    {Full(Manifest(TRUE, TRUE, TRUE, TRUE, 1, 0, "", FALSE)),
     Full(Manifest(TRUE, TRUE, TRUE, TRUE, 1, 3, "Talkie", TRUE)),
     Full([Manifest(TRUE, TRUE, TRUE, TRUE, 1, 0, "", FALSE)
              EXCEPT !.sync = TRUE])}

WideTrees ==
    {{<<"Data", "Bar.swift">>},
     {<<"Foo.swift">>, <<"Data", "Models", "Bar.swift">>},
     {<<"Data", "Bar.swift">>, <<"Models", "Foo.swift">>}}

InitArgs ==
    \E argv \in WideArgvs, file \in WideManifestFiles, t \in WideTrees :
        Start(argv, file, t, 0)

SpecArgs == InitArgs /\ [][Next]_vars

\* Runs without a mode flag, each followed by further runs of the same
\* command line.
ApplyArgvs == {<< >>, <<"engine">>}

InitTwice ==
    \E argv \in ApplyArgvs, file \in ManifestFiles, t \in Trees :
        Start(argv, file, t, 0)

NextTwice ==
    \/ Next
    \/ \E p \in DOMAIN run : Rerun(p)

SpecTwice == InitTwice /\ [][NextTwice]_vars

\* Two runs side by side, of macos and of ios (two projects of the same
\* configuration but for their paths), over equal manifests and equal source
\* trees; the generator gives the second run other ids than the first.
PairProjects == {"macos", "ios"}

PairManifestFiles == {Full(m) : m \in StructureFamily \cup NoMainFamily}

InitPair ==
    \E file \in PairManifestFiles, t \in Trees :
        /\ run = [p \in {1, 2} |->
                     FreshRun(IF p = 1 THEN << >> ELSE <<"ios">>, p - 1, 0, 1)]
        /\ disk = [q \in PairProjects |->
                      [manifest |-> file, backup |-> Absent,
                       source_dir |-> TRUE]]
        /\ tree = [q \in PairProjects |-> t]
        /\ log = << >>

SpecPair == InitPair /\ [][Next]_vars

\* Runs without a mode flag under generators of several random streams: two
\* that return new ids, and one that returns ids the manifest holds (the
\* main group's 1, then 3, 5, ...).
Seeds == {0, 1, 1 - UuidBase}

InitIds ==
    \E argv \in ApplyArgvs, file \in PairManifestFiles, t \in Trees,
       seed \in Seeds :
        Start(argv, file, t, seed)

SpecIds == InitIds /\ [][Next]_vars

\* Runs over source trees with directories the scan skips, files that are
\* not .swift files, and files whose order by path is not their order by
\* name.
ScanUniverse ==
    {<<"Foo.swift">>, <<"Data", "Foo.swift">>, <<"Models", "Bar.swift">>,
     <<".build", "Foo.swift">>, <<"Data", ".build", "Bar.swift">>,
     <<"Talkie.xcodeproj", "Foo.swift">>, <<"Views", "Bar.swift">>,
     <<"Data", "Notes.md">>}

ScanTrees == {t \in SUBSET ScanUniverse : Cardinality(t) <= MaxFiles}

ScanManifestFiles ==
    {Full(Manifest(TRUE, TRUE, TRUE, TRUE, 1, 1, "Talkie", has_foo)) :
        has_foo \in BOOLEAN}

InitScan ==
    \E argv \in ApplyArgvs, file \in ScanManifestFiles, t \in ScanTrees :
        Start(argv, file, t, 0)

SpecScan == InitScan /\ [][Next]_vars

\* Two runs of the same project (macos) side by side, in two processes, the
\* second with other ids than the first; the backup file of an earlier run
\* may be there.
SameManifestFiles ==
    {Full(Manifest(TRUE, TRUE, TRUE, TRUE, 1, layout, "Talkie", has_foo)) :
        layout \in 0..1, has_foo \in BOOLEAN}

EarlierBackups == {Absent, Full(EmptyDoc)}

InitSame ==
    \E file \in SameManifestFiles, earlier \in EarlierBackups, t \in Trees :
        /\ run = [p \in {1, 2} |-> FreshRun(<< >>, p - 1, 0, 1)]
        /\ disk = [q \in {"macos"} |->
                      [manifest |-> file, backup |-> earlier,
                       source_dir |-> TRUE]]
        /\ tree = [q \in {"macos"} |-> t]
        /\ log = << >>

SpecSame == InitSame /\ [][Next]_vars

\* ================================================================ claims

\* An id the generator returned: an entry with such an id was created by
\* the run, not read from the manifest.
IsGenerated(id) == id >= UuidBase

\* The writes to the disk that process p made.
WritesOf(p) == {i \in DOMAIN log : log[i].p = p}

\* The run of p has read the manifest.
HasRead(p) ==
    \/ run[p].pc \in {"sync", "scan", "add", "mode", "backup", "open", "write"}
    \/ /\ run[p].pc = "exited"
       /\ run[p].outcome \notin {"unknown_project", "no_manifest"}

\* The run of p has got past its scan.
PastScan(p) == run[p].pc \in {"add", "mode", "backup", "open", "write", "exited"}

\* --------------------------------------------------------------------- C1
\* C1 (idempotence of add-missing): once a run without a mode flag has
\* written the manifest, the next run over the same source tree finds no
\* missing file, ends with "all files in sync", and writes nothing: the
\* manifest stays as the first run left it.
C1_SecondRunFindsNothing ==
    \A p \in DOMAIN run :
        (/\ run[p].round = 2
         /\ \E i \in DOMAIN log : log[i].op = "write"
         /\ PastScan(p))
        => /\ run[p].missing = << >>
           /\ run[p].outcome = "in_sync"
           /\ Cardinality({i \in DOMAIN log : log[i].op = "open_w"}) = 1

\* --------------------------------------------------------------------- C2
\* C2 (structural closure): in the document add_file_to_project returns,
\* every file-reference entry the run created has exactly one build-file
\* entry whose fileRef is its id, and that build-file id holds exactly one
\* slot of the Sources build phase's file list.
ClosedOver(content, file_ref_id) ==
    LET bfs == {j \in DOMAIN content.buildFiles :
                   content.buildFiles[j].fileRef = file_ref_id}
    IN  /\ Cardinality(bfs) = 1
        /\ \A j \in bfs :
               Cardinality({n \in DOMAIN content.sources :
                               content.sources[n] = content.buildFiles[j].id}) = 1

C2_StructuralClosure ==
    \A p \in DOMAIN run :
        PastScan(p) =>
            \A i \in DOMAIN run[p].content.fileRefs :
                IsGenerated(run[p].content.fileRefs[i].id)
                    => ClosedOver(run[p].content, run[p].content.fileRefs[i].id)

\* --------------------------------------------------------------------- C3
\* The groups that list id among their children.
ParentsOf(content, id) ==
    {i \in DOMAIN content.groups : id \in Range(content.groups[i].children)}

\* The path segments met walking from the main group down to group g, found
\* by walking up from g; <<"?">> when g is no group or hangs under no group.
RECURSIVE SegmentsTo(_, _, _)
SegmentsTo(content, g, fuel) ==
    IF g = content.mainGroup THEN << >>
    ELSE IF fuel = 0 \/ g \notin DOMAIN parse_groups(content)
            \/ ParentsOf(content, g) = {}
    THEN <<"?">>
    ELSE LET i == CHOOSE j \in ParentsOf(content, g) : TRUE
         IN  SegmentsTo(content, content.groups[i].id, fuel - 1)
                 \o <<parse_groups(content)[g].path>>

AllMarkers(content) ==
    content.frMarker /\ content.bfMarker /\ content.grpMarker /\ content.srcPhase

\* C3 (tree invariant), for a manifest that has every marker and whose groups
\* form a tree: after the ensure_group_path calls of a run, every id is a
\* child of at most one group, and the path segments from the main group
\* down to the leaf the last call returned are the segments it was asked for.
C3_TreeInvariant ==
    \A p \in DOMAIN run :
        (/\ PastScan(p)
         /\ run[p].i > 1
         /\ AllMarkers(run[p].original_content)
         /\ run[p].path_parts # << >>)
        => LET c == run[p].content
           IN  /\ \A i \in DOMAIN c.groups :
                      /\ Cardinality(ParentsOf(c, c.groups[i].id)) <= 1
                      /\ \A n \in DOMAIN c.groups[i].children :
                             Cardinality(ParentsOf(c, c.groups[i].children[n])) <= 1
               /\ SegmentsTo(c, run[p].parent_group_id, Len(c.groups))
                      = run[p].path_parts

\* --------------------------------------------------------------------- C4
\* The directories of the missing files (each with its ancestors) that the
\* manifest as read has no group for.
Prefixes(parts) == {SubSeq(parts, 1, n) : n \in 1..Len(parts)}

DirsWithoutGroup(original, missing) ==
    {d \in UNION {Prefixes(DirParts(missing[i])) : i \in DOMAIN missing} :
        find_group_by_path(original, parse_groups(original), d) = NoId}

\* C4 (one group per directory), for a manifest that has every marker and a
\* mainGroup: when all the missing files have been added, the run has created
\* exactly one group for each directory that had none, however many files
\* share the directory and whether or not the main group has a display name.
C4_OneGroupPerDirectory ==
    \A p \in DOMAIN run :
        (/\ run[p].pc = "mode"
         /\ AllMarkers(run[p].original_content))
        => Cardinality({i \in DOMAIN run[p].content.groups :
                           IsGenerated(run[p].content.groups[i].id)})
               = Cardinality(DirsWithoutGroup(run[p].original_content,
                                              run[p].missing))

\* --------------------------------------------------------------------- C5
\* C5 (apply ordering): the manifest is opened for writing only after the
\* same run has written the backup; the write of the manifest is the run's
\* last write to the disk; and a run whose backup copy failed has ended with
\* a non-zero status, never opened the manifest, and left it as it read it.
C5_ApplyOrdering ==
    /\ \A i \in DOMAIN log :
           log[i].op = "open_w"
               => \E j \in 1..(i - 1) : /\ log[j].op = "backup"
                                        /\ log[j].p = log[i].p
                                        /\ log[j].project = log[i].project
    /\ \A i \in DOMAIN log :
           log[i].op \in {"write", "write_failed"} => i = Len(log)
    /\ \A p \in DOMAIN run :
           run[p].outcome = "backup_failed"
               => /\ run[p].pc = "exited"
                  /\ ExitStatus(run[p].outcome) # 0
                  /\ \A i \in WritesOf(p) : log[i].op = "backup_failed"
                  /\ disk[run[p].project_name].manifest
                         = Full(run[p].original_content)

\* A run that wrote the backup and then the manifest.
C5_AppliedRun ==
    \E p \in DOMAIN run :
        /\ run[p].outcome = "written"
        /\ run[p].content # run[p].original_content
        /\ Len(log) = 3

\* --------------------------------------------------------------------- C6
\* C6 (backup safety): from the moment the backup is made, and whatever
\* happens to the manifest afterwards (the open fails, the write fails with
\* the file truncated or partly written), the backup file holds the manifest
\* as the run read it.
C6_BackupSafety ==
    \A p \in DOMAIN run :
        (\/ run[p].pc \in {"open", "write"}
         \/ run[p].outcome \in {"open_failed", "write_failed"})
        => disk[run[p].project_name].backup = Full(run[p].original_content)

\* A write that failed part-way, after the backup.
C6_WriteFailedPartWay ==
    \E p \in DOMAIN run :
        /\ run[p].outcome = "write_failed"
        /\ disk[run[p].project_name].manifest.kind = "partial"
        /\ run[p].content # run[p].original_content

\* --------------------------------------------------------------------- C7
\* C7 (no partial write): the manifest file always holds a complete document,
\* never an empty or a truncated one, and after a failed backup, open or
\* write it holds the document the run read.
C7_NoPartialWrite ==
    /\ \A q \in DOMAIN disk : disk[q].manifest.kind \in {"absent", "full"}
    /\ \A p \in DOMAIN run :
           run[p].outcome \in {"backup_failed", "open_failed", "write_failed"}
               => disk[run[p].project_name].manifest
                      = Full(run[p].original_content)

\* --------------------------------------------------------------------- C8
ModeFlagGiven(argv) ==
    Range(argv) \cap {"--check", "--dry-run", "--diff"} # {}

\* C8 (non-mutating modes): a run with --check, --dry-run or --diff among
\* its arguments, wherever they stand, never gets to the backup or the write,
\* writes nothing to the disk, and the manifest file keeps the text it read.
C8_NonMutatingModes ==
    \A p \in DOMAIN run :
        ModeFlagGiven(run[p].argv)
            => /\ run[p].pc \notin {"backup", "open", "write"}
               /\ WritesOf(p) = {}
               /\ HasRead(p)
                      => TextOf(disk[run[p].project_name].manifest)
                             = run[p].original_content

\* A --dry-run run (without --diff) that edited the document in memory.
C8_DryRunWithEdits ==
    \E p \in DOMAIN run :
        /\ run[p].outcome = "dry_run"
        /\ run[p].content # run[p].original_content

\* --------------------------------------------------------------------- C9
\* C9 (host-managed mode): a run that read a manifest with the
\* PBXFileSystemSynchronizedRootGroup marker ends right after the test for it,
\* with status 0, having drawn no id, edited nothing and written nothing.
C9_HostManaged ==
    \A p \in DOMAIN run :
        (/\ run[p].original_content.sync
         /\ run[p].pc \notin {"start", "config", "read", "sync"})
        => /\ run[p].pc = "exited"
           /\ run[p].outcome = "synced_by_xcode"
           /\ ExitStatus(run[p].outcome) = 0
           /\ run[p].k = 0
           /\ run[p].missing = << >>
           /\ WritesOf(p) = {}
           /\ disk[run[p].project_name].manifest
                  = Full(run[p].original_content)

\* A run without a mode flag, over a tree with files, that ended so.
C9_SyncedManifestLeftAlone ==
    \E p \in DOMAIN run :
        /\ run[p].outcome = "synced_by_xcode"
        /\ ~ModeFlagGiven(run[p].argv)
        /\ tree[run[p].project_name] # {}

\* -------------------------------------------------------------------- C10
\* A marker an add needs is absent from the manifest as read.
GroupToCreate(original, missing) ==
    \E i \in DOMAIN missing :
        /\ DirParts(missing[i]) # << >>
        /\ find_group_by_path(original, parse_groups(original),
                              DirParts(missing[i])) = NoId

RequiredMarkerAbsent(original, missing) ==
    \/ ~original.frMarker
    \/ ~original.bfMarker
    \/ ~original.srcPhase
    \/ ~original.grpMarker /\ GroupToCreate(original, missing)

\* C10 (structural errors abort): a run that has files to add to a manifest
\* lacking a required marker never gets past the adds: it ends with a
\* non-zero status and writes nothing.
C10_StructuralErrorsAbort ==
    \A p \in DOMAIN run :
        (/\ run[p].missing # << >>
         /\ ~run[p].check_only
         /\ RequiredMarkerAbsent(run[p].original_content, run[p].missing))
        => /\ run[p].pc \notin {"mode", "backup", "open", "write"}
           /\ run[p].pc = "exited" => ExitStatus(run[p].outcome) # 0
           /\ WritesOf(p) = {}

\* -------------------------------------------------------------------- C11
\* C11 (missing root is fatal): a run that has files to add to a manifest
\* without a mainGroup reference, whether they lie in a subdirectory or in the
\* source root and whatever the project's source group, adds none of them:
\* its first add raises, the run ends with a non-zero status, and it writes
\* neither the manifest nor a backup.
C11_MissingRootIsFatal ==
    \A p \in DOMAIN run :
        (/\ PastScan(p)
         /\ run[p].original_content.mainGroup = NoId
         /\ run[p].missing # << >>
         /\ ~run[p].check_only)
        => /\ run[p].pc \in {"add", "exited"}
           /\ run[p].pc = "add" => run[p].i = 1
           /\ run[p].pc = "exited" => run[p].outcome = "raised"
           /\ WritesOf(p) = {}

\* -------------------------------------------------------------------- C12
\* The command line names no project, or the project's manifest file or
\* source directory does not exist.
ConfigError(p) ==
    LET q == ProjectName(run[p].argv)
    IN  \/ q \notin PROJECTS
        \/ disk[q].manifest.kind = "absent"
        \/ ~disk[q].source_dir

\* C12 (configuration errors are fatal before any scan): a run with an
\* unknown project name, a missing source directory or a missing manifest
\* file never reads the manifest or scans the tree; it ends with a non-zero
\* status, having written nothing.
C12_ConfigErrorsAreFatal ==
    \A p \in DOMAIN run :
        ConfigError(p)
            => /\ run[p].pc \in {"start", "config", "exited"}
               /\ run[p].pc = "exited" => ExitStatus(run[p].outcome) # 0
               /\ WritesOf(p) = {}

\* -------------------------------------------------------------------- C13
\* The file-reference entries of content named name.
NamedRefs(content, name) ==
    {i \in DOMAIN content.fileRefs : content.fileRefs[i].name = name}

\* C13 (duplicate prevention), for a manifest that has every marker: a
\* file-reference entry the run created is the only one in the document with
\* its filename, and so no filename has more than one entry over those the
\* manifest had when it was read.
C13_DuplicatePrevention ==
    \A p \in DOMAIN run :
        (PastScan(p) /\ AllMarkers(run[p].original_content)) =>
            LET c == run[p].content
            IN  /\ \A i \in DOMAIN c.fileRefs :
                       IsGenerated(c.fileRefs[i].id)
                           => NamedRefs(c, c.fileRefs[i].name) = {i}
                /\ \A name \in SwiftNames :
                       Cardinality(NamedRefs(c, name))
                           <= Cardinality(NamedRefs(run[p].original_content,
                                                    name)) + 1

\* -------------------------------------------------------------------- C14
\* The run of p has scanned the source tree.
Scanned(p) ==
    /\ PastScan(p)
    /\ HasRead(p)
    /\ run[p].outcome # "synced_by_xcode"

\* The run of p is through with its adds.
AddsDone(p) ==
    \/ run[p].pc \in {"mode", "backup", "open", "write"}
    \/ /\ run[p].pc = "exited"
       /\ run[p].outcome \in {"diff", "dry_run", "written", "backup_failed",
                               "open_failed", "write_failed"}

\* The files of the source tree that the manifest as read has no file
\* reference for and whose path matches the glob.
MissingAndMatching(p, glob) ==
    {f \in tree[run[p].project_name] :
        /\ Filename(f) \notin get_files_in_project(run[p].original_content)
        /\ Fnmatch(f, glob)}

\* The entries of a list of the document that the run created.
Created(entries) == {i \in DOMAIN entries : IsGenerated(entries[i].id)}

C16_CheckExitStatus ==
    \A p \in DOMAIN run :
        LET q == ProjectName(run[p].argv)
        IN  (/\ "--check" \in Range(run[p].argv)
             /\ q \in PROJECTS
             /\ disk[q].manifest.kind # "absent")
            => /\ run[p].pc \notin {"add", "mode", "backup", "open", "write"}
               /\ run[p].pc = "exited"
                      => /\ ExitStatus(run[p].outcome) = 0
                         /\ run[p].outcome
                                = (IF run[p].original_content.sync
                                   THEN "synced_by_xcode"
                                   ELSE IF run[p].missing = << >>
                                   THEN "in_sync" ELSE "checked")

\* A --check run that reported missing files.
C16_CheckedWithMissing ==
    \E p \in DOMAIN run :
        /\ run[p].pc = "exited"
        /\ run[p].check_only
        /\ run[p].missing # << >>
        /\ ExitStatus(run[p].outcome) = 0

\* -------------------------------------------------------------------- C15
\* The document with the ids the first run's generator returned renamed to
\* those the second run's returned in their place.
RenameId(id) == IF IsGenerated(id) THEN id + 1 ELSE id

RenameIds(ids) == [n \in DOMAIN ids |-> RenameId(ids[n])]

Renamed(content) ==
    [content EXCEPT
        !.fileRefs = [n \in DOMAIN @ |-> [@[n] EXCEPT !.id = RenameId(@)]],
        !.buildFiles = [n \in DOMAIN @ |->
                           [@[n] EXCEPT !.id = RenameId(@),
                                        !.fileRef = RenameId(@)]],
        !.sources = RenameIds(@),
        !.groups = [n \in DOMAIN @ |->
                       [@[n] EXCEPT !.id = RenameId(@),
                                    !.children = RenameIds(@)]]]

\* C15 (determinism): of two runs over the same source files and the same
\* manifest that differ only in the ids their generators return, each finds
\* the same missing list, and after the same number of adds the document of
\* one is the document of the other with the generated ids renamed: the same
\* entries in the same order, the same groups with the same children in the
\* same order.
C15_Determinism ==
    (/\ Scanned(1) /\ Scanned(2)
     /\ run[1].i = run[2].i)
    => /\ run[1].missing = run[2].missing
       /\ Renamed(run[1].content) = run[2].content

\* Both runs have added two files, one of them into a group they created.
C15_BothAddedTwo ==
    /\ AddsDone(1) /\ AddsDone(2)
    /\ Len(run[1].missing) = 2
    /\ Created(run[1].content.groups) # {}
    /\ Created(run[2].content.groups) # {}
    /\ run[1].content # run[2].content

\* -------------------------------------------------------------------- C17
\* C17 (every file added has exactly one parent group), for a manifest that
\* has every marker and a mainGroup: each file reference the run created is
\* in the children of exactly one group, and the one the last add created is
\* in the children of the group that add took for its parent.
C17_OneParentPerFile ==
    \A p \in DOMAIN run :
        (/\ PastScan(p)
         /\ AllMarkers(run[p].original_content)
         /\ run[p].original_content.mainGroup # NoId)
        => LET c == run[p].content
           IN  /\ \A i \in Created(c.fileRefs) :
                      Cardinality(ParentsOf(c, c.fileRefs[i].id)) = 1
               /\ Created(c.fileRefs) # {}
                      => /\ run[p].parent_group_id # NoId
                         /\ \A j \in ParentsOf(c, c.fileRefs[1].id) :
                                c.groups[j].id = run[p].parent_group_id

\* -------------------------------------------------------------------- C18
\* Group g is anc or lies under it.
RECURSIVE Under(_, _, _, _)
Under(content, g, anc, fuel) ==
    \/ g = anc
    \/ /\ fuel > 0
       /\ \E i \in ParentsOf(content, g) :
              Under(content, content.groups[i].id, anc, fuel - 1)

\* The main group entry has a name comment.
MainGroupNamed(content) ==
    \A i \in DOMAIN content.groups :
        content.groups[i].id = content.mainGroup => content.groups[i].name # ""

\* C18 (named source group as resolution start), for a project that
\* configures a source group and a manifest that has every marker, a main
\* group with a name comment and the source group under it: every group the
\* run created lies under the source group, and none is a child of the main
\* group.
C18_SourceGroupIsStart ==
    \A p \in DOMAIN run :
        LET orig  == run[p].original_content
            named == find_source_group(orig, parse_groups(orig),
                                       SourceGroupOf(run[p].project_name))
            c     == run[p].content
        IN  (/\ PastScan(p)
             /\ run[p].project_name \in PROJECTS
             /\ SourceGroupOf(run[p].project_name) # ""
             /\ AllMarkers(orig)
             /\ MainGroupNamed(orig)
             /\ named # NoId)
            => \A i \in Created(c.groups) :
                   /\ Under(c, c.groups[i].id, named, Len(c.groups))
                   /\ \A j \in ParentsOf(c, c.groups[i].id) :
                          c.groups[j].id # c.mainGroup

\* -------------------------------------------------------------------- C19
\* The ids of the entries of a list of the document.
IdsOf(entries) == {entries[i].id : i \in DOMAIN entries}

\* No build file without its file reference, no Sources entry without its
\* build file, no child of a group that is neither group nor file reference.
NoDanglingReference(content) ==
    /\ \A i \in DOMAIN content.buildFiles :
           content.buildFiles[i].fileRef \in IdsOf(content.fileRefs)
    /\ \A n \in DOMAIN content.sources :
           content.sources[n] \in IdsOf(content.buildFiles)
    /\ \A i \in DOMAIN content.groups :
           \A n \in DOMAIN content.groups[i].children :
               content.groups[i].children[n]
                   \in IdsOf(content.groups) \cup IdsOf(content.fileRefs)

\* C19 (referential integrity): when the manifest as read has no dangling
\* reference, the document has none after any number of adds, and the run
\* has created as many build-file entries as file-reference entries.
C19_ReferentialIntegrity ==
    \A p \in DOMAIN run :
        (PastScan(p) /\ NoDanglingReference(run[p].original_content))
        => /\ NoDanglingReference(run[p].content)
           /\ Cardinality(Created(run[p].content.buildFiles))
                  = Cardinality(Created(run[p].content.fileRefs))

\* The statement of C19 for the manifests that have every marker, where no
\* insertion is skipped.
C19_IntegrityWithMarkers ==
    \A p \in DOMAIN run :
        (/\ PastScan(p)
         /\ NoDanglingReference(run[p].original_content)
         /\ AllMarkers(run[p].original_content))
        => /\ NoDanglingReference(run[p].content)
           /\ Cardinality(Created(run[p].content.buildFiles))
                  = Cardinality(Created(run[p].content.fileRefs))

\* -------------------------------------------------------------------- C20
\* The ids the generator has returned in the run of p.
Drawn(p) == {generate_uuid(run[p].seed, j) : j \in 0..(run[p].k - 1)}

\* Every id the document holds or refers to.
AllIds(content) ==
    (IdsOf(content.fileRefs) \cup IdsOf(content.buildFiles)
        \cup IdsOf(content.groups) \cup Range(content.sources)
        \cup {content.buildFiles[i].fileRef : i \in DOMAIN content.buildFiles}
        \cup UNION {Range(content.groups[i].children) :
                        i \in DOMAIN content.groups}
        \cup {content.mainGroup}) \ {NoId}

\* C20 (identifier uniqueness): the ids the generator returns in a run are
\* different from one another and from every id of the manifest the run
\* read.
C20_IdentifierUniqueness ==
    \A p \in DOMAIN run :
        Scanned(p)
            => /\ Cardinality(Drawn(p)) = run[p].k
               /\ Drawn(p) \cap AllIds(run[p].original_content) = {}

\* -------------------------------------------------------------------- C21
\* List a is the beginning of list b.
IsPrefix(a, b) == Len(a) <= Len(b) /\ SubSeq(b, 1, Len(a)) = a

\* C21 (group children are appended): every group of the manifest as read
\* keeps, in the document being edited, the children it had as the beginning
\* of its children list, in their order: the ids the run added, file
\* references and new groups alike, come after them.
C21_ChildrenAppended ==
    \A p \in DOMAIN run :
        Scanned(p) =>
            LET orig == run[p].original_content
                c    == run[p].content
            IN  \A i \in DOMAIN orig.groups :
                    \E j \in DOMAIN c.groups :
                        /\ c.groups[j].id = orig.groups[i].id
                        /\ IsPrefix(orig.groups[i].children,
                                    c.groups[j].children)

\* -------------------------------------------------------------------- C22
\* C22 (build-phase membership is append-only): the Sources list of the
\* document being edited begins with the list of the manifest as read, the
\* ids the run added come after it, and no id is in the list twice.
C22_SourcesAppendOnly ==
    \A p \in DOMAIN run :
        Scanned(p) =>
            LET c == run[p].content
            IN  /\ IsPrefix(run[p].original_content.sources, c.sources)
                /\ \A m, n \in DOMAIN c.sources :
                       c.sources[m] = c.sources[n] => m = n

\* -------------------------------------------------------------------- C23
\* The names of the file-reference entries of the document.
NamesOf(content) == {content.fileRefs[i].name : i \in DOMAIN content.fileRefs}

\* C23 (missing set by leaf filename): in a run without --only, the missing
\* list holds, once each, exactly the scanned files whose leaf name is the
\* name of no file-reference entry of the manifest as read; a scanned file
\* whose leaf name is such a name is not in it, whatever its directory.
C23_MissingByLeafName ==
    \A p \in DOMAIN run :
        (Scanned(p) /\ OnlyPattern(run[p].argv) = "")
        => LET r == run[p]
           IN  /\ Range(r.missing)
                      = {f \in Range(r.all_swift_files) :
                            \A n \in NamesOf(r.original_content) :
                                n # f[Len(f)]}
               /\ \A m, n \in DOMAIN r.missing :
                      r.missing[m] = r.missing[n] => m = n

\* A run that scanned a file in a subdirectory whose leaf name the manifest
\* has, together with a file that is missing.
C23_SameLeafElsewhere ==
    \E p \in DOMAIN run :
        /\ Scanned(p)
        /\ OnlyPattern(run[p].argv) = ""
        /\ run[p].missing # << >>
        /\ \E n \in DOMAIN run[p].all_swift_files :
               LET f == run[p].all_swift_files[n]
               IN  /\ Len(f) > 1
                   /\ Filename(f) \in NamesOf(run[p].original_content)
                   /\ f \notin Range(run[p].missing)

\* -------------------------------------------------------------------- C24
\* The run of p has files to add and has got to its loop over them.
InAddLoop(p) ==
    /\ Scanned(p)
    /\ run[p].missing # << >>
    /\ run[p].i >= 1

\* The documents are folded through the adds: after i - 1 turns of the loop
\* the document is the manifest as read with the first i - 1 missing files
\* added one after the other, each once.
FoldedInOrder(p) ==
    LET r == run[p]
        done == AddMissing(r.original_content, r.missing, r.i - 1,
                           SourceGroupOf(r.project_name), r.seed, 0)
    IN  /\ r.i <= Len(r.missing) + 1
        /\ r.content = done.content
        /\ AddsDone(p) => r.i = Len(r.missing) + 1

\* C24 as the claim states it (batch order by filename): the adds are made
\* once per missing file, each on the document of the one before, in the
\* order of the files' leaf names.
C24_FilenameOrder ==
    \A p \in DOMAIN run :
        InAddLoop(p)
            => /\ FoldedInOrder(p)
               /\ \A m, n \in DOMAIN run[p].missing :
                      m < n => NameRank(Filename(run[p].missing[m]))
                                  <= NameRank(Filename(run[p].missing[n]))

\* C24 as amended (batch order by path): the adds are made once per missing
\* file, each on the document of the one before, in the ascending order of
\* the files' relative paths, compared part by part.
C24_PathOrder ==
    \A p \in DOMAIN run :
        InAddLoop(p)
            => /\ FoldedInOrder(p)
               /\ \A m, n \in DOMAIN run[p].missing :
                      m < n => PathLess(run[p].missing[m],
                                        run[p].missing[n], 1)

\* A run that added two files whose order by path is not their order by
\* leaf name.
C24_AddedTwoByPath ==
    \E p \in DOMAIN run :
        /\ AddsDone(p)
        /\ Len(run[p].missing) = 2
        /\ NameRank(Filename(run[p].missing[1]))
               > NameRank(Filename(run[p].missing[2]))
        /\ Cardinality(Created(run[p].content.fileRefs)) = 2

\* -------------------------------------------------------------------- C25
\* The file lies in a directory the scan skips, at some depth.
InSkippedDir(f, skip_dirs) ==
    \E i \in 1..(Len(f) - 1) : f[i] \in skip_dirs \/ EndsWithXcodeproj(f[i])

\* C25 (scan pruning): the list find_swift_files returned holds exactly the
\* .swift files of the source tree that lie in no directory, at any depth,
\* whose name is in skip_dirs or ends in .xcodeproj, each once, in ascending
\* order.
C25_ScanPruning ==
    \A p \in DOMAIN run :
        Scanned(p)
        => LET found == run[p].all_swift_files
               q     == run[p].project_name
           IN  /\ Range(found)
                      = {f \in tree[q] :
                            /\ EndsWithSwift(f[Len(f)])
                            /\ ~InSkippedDir(f, SkipDirsOf(q))}
               /\ \A m, n \in DOMAIN found :
                      m < n => PathLess(found[m], found[n], 1)

\* A scan of a tree with a .swift file in a skipped directory below the
\* first level, and a .swift file that was found.
C25_SkippedBelow ==
    \E p \in DOMAIN run :
        /\ Scanned(p)
        /\ run[p].all_swift_files # << >>
        /\ \E f \in tree[run[p].project_name] :
               /\ Len(f) > 2
               /\ EndsWithSwift(f[Len(f)])
               /\ InSkippedDir(f, SkipDirsOf(run[p].project_name))

\* -------------------------------------------------------------------- C26
\* The entries of a list that the run did not create, and the ids of a list
\* that the generator did not return.
NotCreated(entries) == SelectSeq(entries, LAMBDA e : ~IsGenerated(e.id))

OldIds(ids) == SelectSeq(ids, LAMBDA id : ~IsGenerated(id))

\* The document with everything the run inserted taken out again.
WithoutInserted(content) ==
    LET groups == NotCreated(content.groups)
    IN  [content EXCEPT
            !.fileRefs = NotCreated(content.fileRefs),
            !.buildFiles = NotCreated(content.buildFiles),
            !.sources = OldIds(content.sources),
            !.groups = [n \in DOMAIN groups |->
                           [groups[n] EXCEPT
                               !.children = OldIds(groups[n].children)]]]

\* C26 (edits only add): the document being edited differs from the manifest
\* as read only by the entries and ids the run inserted: every file
\* reference, build file, Sources id, group and group child of the manifest
\* is still there, with the same attributes, in the same group, in the same
\* order.
C26_EditsOnlyAdd ==
    \A p \in DOMAIN run :
        Scanned(p) => WithoutInserted(run[p].content) = run[p].original_content

\* A run that added a file to a manifest holding a file reference, its build
\* file and a group with children, and put a new child into that group.
C26_AddedBesideOld ==
    \E p \in DOMAIN run :
        /\ AddsDone(p)
        /\ run[p].original_content.fileRefs # << >>
        /\ run[p].original_content.sources # << >>
        /\ \E i \in DOMAIN run[p].content.groups :
               LET ch == run[p].content.groups[i].children
               IN  /\ \E n \in DOMAIN ch : IsGenerated(ch[n])
                   /\ \E n \in DOMAIN ch : ~IsGenerated(ch[n])

\* -------------------------------------------------------------------- C27
\* The run of p has made its backup; it has opened its manifest for writing.
BackedUp(p) ==
    \/ run[p].pc \in {"open", "write"}
    \/ run[p].outcome \in {"open_failed", "write_failed", "written"}

Opened(p) ==
    \/ run[p].pc = "write"
    \/ run[p].outcome \in {"write_failed", "written"}

\* The manifest and the backup of the project of p are what the run of p
\* alone makes of them, at every step of it.
OwnFilesAsAlone(p) ==
    LET r == run[p]
        d == disk[ProjectName(r.argv)]
    IN  /\ d.backup \in
               (IF BackedUp(p) THEN {Full(r.original_content)}
                ELSE IF r.outcome = "backup_failed"
                THEN {Absent, Truncated, Partial(r.original_content)}
                ELSE {Absent})
        /\ d.manifest \in
               (IF r.outcome = "written" THEN {Full(r.content)}
                ELSE IF r.outcome = "write_failed"
                THEN {Truncated, Partial(r.content)}
                ELSE IF r.pc = "write" THEN {Truncated}
                ELSE IF HasRead(p) THEN {Full(r.original_content)}
                ELSE {d.manifest})

\* C27 (project independence), for runs of two projects side by side over
\* equal manifests, their steps interleaved in any way: each run writes the
\* files of its own project only; at every step the manifest and the backup
\* of each project are what its own run alone makes of them; and both runs
\* read the same text, as they do when one runs after the other.
C27_ProjectIndependence ==
    /\ \A i \in DOMAIN log :
           log[i].project = ProjectName(run[log[i].p].argv)
    /\ \A p \in DOMAIN run : OwnFilesAsAlone(p)
    /\ (HasRead(1) /\ HasRead(2))
           => run[1].original_content = run[2].original_content
    /\ (~Opened(1) /\ ~Opened(2))
           => disk["macos"].manifest = disk["ios"].manifest

\* The run of ios has written its manifest and its backup while the run of
\* macos, which read its manifest before, has not got to its backup yet.
C27_OneWrittenOtherPending ==
    /\ run[2].outcome = "written"
    /\ run[2].content # run[2].original_content
    /\ run[1].pc = "backup"
    /\ disk["macos"].backup = Absent

\* -------------------------------------------------------------------- C28
\* C28 (add_file_to_project is all-or-nothing), for a manifest that has every
\* marker: of the four insertions of the last add that returned (the
\* file-reference entry, its id among some group's children, the build-file
\* entry, its id in the Sources list) the document has all or none.
C28_AllOrNothing ==
    \A p \in DOMAIN run :
        (/\ Scanned(p)
         /\ run[p].file_ref_id # NoId
         /\ AllMarkers(run[p].original_content))
        => LET c == run[p].content
               has_file_ref   == run[p].file_ref_id \in IdsOf(c.fileRefs)
               has_parent     == ParentsOf(c, run[p].file_ref_id) # {}
               has_build_file == run[p].build_file_id \in IdsOf(c.buildFiles)
               has_membership == run[p].build_file_id \in Range(c.sources)
           IN  \/ has_file_ref /\ has_parent /\ has_build_file
                      /\ has_membership
               \/ ~has_file_ref /\ ~has_parent /\ ~has_build_file
                      /\ ~has_membership

\* -------------------------------------------------------------------- C29
\* The last write to the backup file so far was the backup of the run of p.
LastBackupBy(p) ==
    \E i \in DOMAIN log :
        /\ log[i].op = "backup"
        /\ log[i].p = p
        /\ \A j \in DOMAIN log :
               (j > i) => log[j].op \notin {"backup", "backup_failed"}

\* C29 (the backup equals what the run transformed): when a run has written
\* the manifest, the backup file it made holds the text the run read at its
\* start, whatever the backup file held before and whatever another process
\* did to the manifest between the read and the backup.
C29_BackupIsWhatWasRead ==
    \A p \in DOMAIN run :
        (run[p].outcome = "written" /\ LastBackupBy(p))
        => disk[run[p].project_name].backup = Full(run[p].original_content)

\* -------------------------------------------------------------------- C30
\* C30 (nothing to do touches nothing): in every mode, a run whose missing
\* list is empty ends there with "all files in sync" and status 0; it has
\* written nothing, the manifest holds the text the run read and there is no
\* backup file.
C30_NothingToDoTouchesNothing ==
    \A p \in DOMAIN run :
        (Scanned(p) /\ run[p].missing = << >>)
        => /\ run[p].pc = "exited"
           /\ run[p].outcome = "in_sync"
           /\ ExitStatus(run[p].outcome) = 0
           /\ WritesOf(p) = {}
           /\ disk[run[p].project_name].manifest
                  = Full(run[p].original_content)
           /\ disk[run[p].project_name].backup = Absent

\* A run without a mode flag has scanned a tree that has files and found
\* nothing missing.
C30_ApplyRunInSync ==
    \E p \in DOMAIN run :
        /\ Scanned(p)
        /\ run[p].missing = << >>
        /\ run[p].outcome = "in_sync"
        /\ ~run[p].check_only /\ ~run[p].dry_run /\ ~run[p].show_diff
        /\ tree[run[p].project_name] # {}

====
